---- MODULE Spec2Model ----
(***************************************************************************)
(* The dimension-to-cutting-list core of inner-space-backend:              *)
(*   backend/services/manufacturing_rules.py  (ConstructionStyle,          *)
(*       CabinetTypeDetector, ComponentCalculator, DEFAULT_STYLE)          *)
(*   backend/services/cutting_list_builder.py (Cabinet, CuttingListBuilder)*)
(*                                                                         *)
(* Conventions.                                                            *)
(*  - A Python dict is a TLA+ record; d.get(k, default) is Get(d,k,default)*)
(*  - A value that may be None is None (<<>>) or Some(v) (<<v>>).          *)
(*  - An f-string is the tuple of its parts: f'Gable ({id})' is            *)
(*    <<"Gable", id>>, f'Shelf {n} ({id})' is <<"Shelf", n, id>>.          *)
(*  - An area in m2 (a Python float x) is held as the integer x*1_000_000, *)
(*    i.e. in mm2, so that  w*h*q / 1_000_000  is the integer w*h*q and    *)
(*    round(x, 2) is the nearest multiple of 10_000 (Round2).              *)
(*  - A call that may raise returns [exc |-> "none", ...] or               *)
(*    [exc |-> <exception class>].                                         *)
(***************************************************************************)
EXTENDS Integers, Sequences, FiniteSets, TLC

VARIABLES
    style,      \* self.style of the builder
    cabinets,   \* the list passed to build_cutting_list, as it is after the call
    result,     \* what the call returned, or the exception it raised
    pc,         \* "ready" (built, not called), "returned", "raised" or,
                \* after calculate_components, "calculated"
    tie_up,     \* the side the float arithmetic falls on at an exact rounding tie
    calculator_input,   \* the dict passed to calculate_components
    breakdown,          \* what calculate_components returned
    history,    \* the calls made so far on the builders and their calculators:
                \* [op, builder, input, output], oldest first
    builder     \* the number of builders constructed so far on the one style;
                \* calls are made on the latest

vars ==
    <<style, cabinets, result, pc, tie_up, calculator_input, breakdown, history,
      builder>>

None == <<>>
Some(v) == <<v>>

\* dict.get(key, default)
Get(d, key, default) == IF key \in DOMAIN d THEN d[key] ELSE default

\* Python truthiness of an int: `if w`
Truthy(n) == n # 0

\* Python truthiness of an Optional[int]: `if d`
TruthyOpt(o) == o # None /\ o # Some(0)

\* int(a / b) for b > 0: float division, then truncation toward zero
IntDiv(a, b) == IF a >= 0 THEN a \div b ELSE -((-a) \div b)

Max(a, b) == IF a >= b THEN a ELSE b

\* round(x, 2) on an area held in mm2: the nearest multiple of 10_000 mm2
\* (0.01 m2).  When the exact value is a tie (x = k.005) the double the code
\* holds is not the tie itself but a neighbour of it, above or below, and
\* round() follows the double: either side can come out (1.285 gives 1.29,
\* 2.675 gives 2.67).  tie_up is the side taken.
Round2(n) ==
    LET q == n \div 10000
        r == n % 10000
    IN  IF r < 5000 THEN q * 10000
        ELSE IF r > 5000 THEN (q + 1) * 10000
        ELSE IF tie_up THEN (q + 1) * 10000 ELSE q * 10000

(***************************************************************************)
(* manufacturing_rules.py                                                  *)
(***************************************************************************)

\* ConstructionStyle(): the dataclass defaults
ConstructionStyle ==
    [material_thickness |-> 18,
     back_thickness |-> 6,
     cabinet_type |-> "base",
     toe_kick_height |-> 150,
     wardrobe_toe_kick |-> 100,
     door_gap |-> 2,
     back_construction_mode |-> "overlay"]

DEFAULT_STYLE ==
    [ConstructionStyle EXCEPT !.material_thickness = 18,
                              !.back_thickness = 6,
                              !.cabinet_type = "base",
                              !.toe_kick_height = 150,
                              !.back_construction_mode = "overlay"]

\* mutant of detect_type: the wardrobe rule is tested before the tall rule
detect_type_WardrobeFirst(width, height, depth) ==
    IF depth >= 560 /\ height > 1500 THEN "wardrobe"
    ELSE IF height > 1500 THEN "tall"
    ELSE IF height <= 900 /\ depth <= 400 THEN "wall"
    ELSE "base"

\* CabinetTypeDetector.detect_type
detect_type(width, height, depth) ==
    IF height > 1500 THEN "tall"
    ELSE IF height <= 900 /\ depth <= 400 THEN "wall"
    ELSE IF depth >= 560 /\ height > 1500 THEN "wardrobe"
    ELSE "base"

\* mutant of calculate_base_cabinet: the internal width is the docstring's W - 36 whatever the style
calculate_base_cabinet_Fixed36(self, width) ==
    LET GABLE_HEIGHT == 720
        GABLE_DEPTH == 560
        PANEL_DEPTH == 500
        BRACE_HEIGHT == 100
        internal_width == width - 36
    IN  [type |-> "base",
         overall |-> [width |-> width, height |-> GABLE_HEIGHT, depth |-> 600,
                      internal_width |-> internal_width,
                      internal_depth |-> GABLE_DEPTH],
         gables |-> [width |-> GABLE_DEPTH, height |-> GABLE_HEIGHT,
                     thickness |-> self.material_thickness, quantity |-> 2,
                     component_type |-> "GABLE"],
         top_bottom |-> [width |-> internal_width, depth |-> PANEL_DEPTH,
                         thickness |-> self.material_thickness, quantity |-> 2,
                         component_type |-> "T/B"],
         shelves |-> [width |-> internal_width, depth |-> PANEL_DEPTH,
                      thickness |-> self.material_thickness, quantity |-> 1,
                      component_type |-> "S/H"],
         back |-> [width |-> internal_width, height |-> GABLE_HEIGHT,
                   thickness |-> self.back_thickness, quantity |-> 1,
                   component_type |-> "BACKS"],
         braces |-> [width |-> internal_width, height |-> BRACE_HEIGHT,
                     thickness |-> self.material_thickness, quantity |-> 1,
                     component_type |-> "BRACES",
                     notes |-> "Top only - hollow basis"]]

\* ComponentCalculator.calculate_base_cabinet
calculate_base_cabinet(self, width) ==
    LET GABLE_HEIGHT == 720
        GABLE_DEPTH == 560
        PANEL_DEPTH == 500
        BRACE_HEIGHT == 100
        internal_width == width - (self.material_thickness * 2)
    IN  [type |-> "base",
         overall |-> [width |-> width, height |-> GABLE_HEIGHT, depth |-> 600,
                      internal_width |-> internal_width,
                      internal_depth |-> GABLE_DEPTH],
         gables |-> [width |-> GABLE_DEPTH, height |-> GABLE_HEIGHT,
                     thickness |-> self.material_thickness, quantity |-> 2,
                     component_type |-> "GABLE"],
         top_bottom |-> [width |-> internal_width, depth |-> PANEL_DEPTH,
                         thickness |-> self.material_thickness, quantity |-> 2,
                         component_type |-> "T/B"],
         shelves |-> [width |-> internal_width, depth |-> PANEL_DEPTH,
                      thickness |-> self.material_thickness, quantity |-> 1,
                      component_type |-> "S/H"],
         back |-> [width |-> internal_width, height |-> GABLE_HEIGHT,
                   thickness |-> self.back_thickness, quantity |-> 1,
                   component_type |-> "BACKS"],
         braces |-> [width |-> internal_width, height |-> BRACE_HEIGHT,
                     thickness |-> self.material_thickness, quantity |-> 1,
                     component_type |-> "BRACES",
                     notes |-> "Top only - hollow basis"]]

\* mutant of calculate_wall_cabinet: the second shelf starts at height 700 instead of above it
calculate_wall_cabinet_Below700(self, width, height) ==
    LET GABLE_DEPTH == 300
        PANEL_DEPTH == 280
        BRACE_HEIGHT == 100
        internal_width == width - (self.material_thickness * 2)
        shelf_count == IF height < 700 THEN 1 ELSE 2
    IN  [type |-> "wall",
         overall |-> [width |-> width, height |-> height, depth |-> 320,
                      internal_width |-> internal_width,
                      internal_depth |-> GABLE_DEPTH],
         gables |-> [width |-> GABLE_DEPTH, height |-> height,
                     thickness |-> self.material_thickness, quantity |-> 2,
                     component_type |-> "GABLE"],
         top_bottom |-> [width |-> internal_width, depth |-> PANEL_DEPTH,
                         thickness |-> self.material_thickness, quantity |-> 2,
                         component_type |-> "T/B"],
         shelves |-> [width |-> internal_width, depth |-> PANEL_DEPTH,
                      thickness |-> self.material_thickness,
                      quantity |-> shelf_count, component_type |-> "S/H"],
         back |-> [width |-> internal_width, height |-> height,
                   thickness |-> self.back_thickness, quantity |-> 1,
                   component_type |-> "BACKS"],
         braces |-> [width |-> internal_width, height |-> BRACE_HEIGHT,
                     thickness |-> self.material_thickness, quantity |-> 2,
                     component_type |-> "BRACES",
                     notes |-> "Top and bottom for wall mounting"]]

\* mutant of calculate_wall_cabinet: an inset back takes its thickness off the panel depth
calculate_wall_cabinet_InsetBack(self, width, height) ==
    LET GABLE_DEPTH == 300
        PANEL_DEPTH == IF self.back_construction_mode = "inset"
                       THEN 280 - self.back_thickness ELSE 280
        BRACE_HEIGHT == 100
        internal_width == width - (self.material_thickness * 2)
        shelf_count == IF height <= 700 THEN 1 ELSE 2
    IN  [type |-> "wall",
         overall |-> [width |-> width, height |-> height, depth |-> 320,
                      internal_width |-> internal_width,
                      internal_depth |-> GABLE_DEPTH],
         gables |-> [width |-> GABLE_DEPTH, height |-> height,
                     thickness |-> self.material_thickness, quantity |-> 2,
                     component_type |-> "GABLE"],
         top_bottom |-> [width |-> internal_width, depth |-> PANEL_DEPTH,
                         thickness |-> self.material_thickness, quantity |-> 2,
                         component_type |-> "T/B"],
         shelves |-> [width |-> internal_width, depth |-> PANEL_DEPTH,
                      thickness |-> self.material_thickness,
                      quantity |-> shelf_count, component_type |-> "S/H"],
         back |-> [width |-> internal_width, height |-> height,
                   thickness |-> self.back_thickness, quantity |-> 1,
                   component_type |-> "BACKS"],
         braces |-> [width |-> internal_width, height |-> BRACE_HEIGHT,
                     thickness |-> self.material_thickness, quantity |-> 2,
                     component_type |-> "BRACES",
                     notes |-> "Top and bottom for wall mounting"]]

\* ComponentCalculator.calculate_wall_cabinet
calculate_wall_cabinet(self, width, height) ==
    LET GABLE_DEPTH == 300
        PANEL_DEPTH == 280
        BRACE_HEIGHT == 100
        internal_width == width - (self.material_thickness * 2)
        shelf_count == IF height <= 700 THEN 1 ELSE 2
    IN  [type |-> "wall",
         overall |-> [width |-> width, height |-> height, depth |-> 320,
                      internal_width |-> internal_width,
                      internal_depth |-> GABLE_DEPTH],
         gables |-> [width |-> GABLE_DEPTH, height |-> height,
                     thickness |-> self.material_thickness, quantity |-> 2,
                     component_type |-> "GABLE"],
         top_bottom |-> [width |-> internal_width, depth |-> PANEL_DEPTH,
                         thickness |-> self.material_thickness, quantity |-> 2,
                         component_type |-> "T/B"],
         shelves |-> [width |-> internal_width, depth |-> PANEL_DEPTH,
                      thickness |-> self.material_thickness,
                      quantity |-> shelf_count, component_type |-> "S/H"],
         back |-> [width |-> internal_width, height |-> height,
                   thickness |-> self.back_thickness, quantity |-> 1,
                   component_type |-> "BACKS"],
         braces |-> [width |-> internal_width, height |-> BRACE_HEIGHT,
                     thickness |-> self.material_thickness, quantity |-> 2,
                     component_type |-> "BRACES",
                     notes |-> "Top and bottom for wall mounting"]]

\* mutant of calculate_tall_cabinet: one shelf per 500 mm, the wardrobe's spacing
calculate_tall_cabinet_Per500(self, width, height) ==
    LET GABLE_DEPTH == 560
        PANEL_DEPTH == 500
        BRACE_HEIGHT == 100
        internal_width == width - (self.material_thickness * 2)
        shelf_count == Max(2, IntDiv(height - 200, 500))
    IN  [type |-> "tall",
         overall |-> [width |-> width, height |-> height, depth |-> 600,
                      internal_width |-> internal_width,
                      internal_depth |-> GABLE_DEPTH],
         gables |-> [width |-> GABLE_DEPTH, height |-> height,
                     thickness |-> self.material_thickness, quantity |-> 2,
                     component_type |-> "GABLE"],
         top_bottom |-> [width |-> internal_width, depth |-> PANEL_DEPTH,
                         thickness |-> self.material_thickness, quantity |-> 2,
                         component_type |-> "T/B"],
         shelves |-> [width |-> internal_width, depth |-> PANEL_DEPTH,
                      thickness |-> self.material_thickness,
                      quantity |-> shelf_count, component_type |-> "S/H"],
         back |-> [width |-> internal_width, height |-> height,
                   thickness |-> self.back_thickness, quantity |-> 1,
                   component_type |-> "BACKS"],
         braces |-> [width |-> internal_width, height |-> BRACE_HEIGHT,
                     thickness |-> self.material_thickness, quantity |-> 2,
                     component_type |-> "BRACES",
                     notes |-> "Top and bottom"]]

\* ComponentCalculator.calculate_tall_cabinet
calculate_tall_cabinet(self, width, height) ==
    LET GABLE_DEPTH == 560
        PANEL_DEPTH == 500
        BRACE_HEIGHT == 100
        internal_width == width - (self.material_thickness * 2)
        shelf_count == Max(2, IntDiv(height - 200, 400))
    IN  [type |-> "tall",
         overall |-> [width |-> width, height |-> height, depth |-> 600,
                      internal_width |-> internal_width,
                      internal_depth |-> GABLE_DEPTH],
         gables |-> [width |-> GABLE_DEPTH, height |-> height,
                     thickness |-> self.material_thickness, quantity |-> 2,
                     component_type |-> "GABLE"],
         top_bottom |-> [width |-> internal_width, depth |-> PANEL_DEPTH,
                         thickness |-> self.material_thickness, quantity |-> 2,
                         component_type |-> "T/B"],
         shelves |-> [width |-> internal_width, depth |-> PANEL_DEPTH,
                      thickness |-> self.material_thickness,
                      quantity |-> shelf_count, component_type |-> "S/H"],
         back |-> [width |-> internal_width, height |-> height,
                   thickness |-> self.back_thickness, quantity |-> 1,
                   component_type |-> "BACKS"],
         braces |-> [width |-> internal_width, height |-> BRACE_HEIGHT,
                     thickness |-> self.material_thickness, quantity |-> 2,
                     component_type |-> "BRACES",
                     notes |-> "Top and bottom"]]

\* mutant of calculate_wardrobe: the shelves get the 30 mm allowance of the top and bottom
calculate_wardrobe_ShelfGap30(self, width, height, depth) ==
    LET internal_width == width - (self.material_thickness * 2)
        tb_depth == depth - 30
        shelf_depth == depth - 30
        shelf_count == Max(2, IntDiv(height - 200, 500))
    IN  [type |-> "wardrobe",
         overall |-> [width |-> width, height |-> height, depth |-> depth + 40,
                      internal_width |-> internal_width,
                      internal_depth |-> depth],
         gables |-> [width |-> depth, height |-> height,
                     thickness |-> self.material_thickness, quantity |-> 2,
                     component_type |-> "GABLE"],
         top_bottom |-> [width |-> internal_width, depth |-> tb_depth,
                         thickness |-> self.material_thickness, quantity |-> 2,
                         component_type |-> "T/B"],
         shelves |-> [width |-> internal_width, depth |-> shelf_depth,
                      thickness |-> self.material_thickness,
                      quantity |-> shelf_count, component_type |-> "S/H"],
         back |-> [width |-> internal_width, height |-> height,
                   thickness |-> self.back_thickness, quantity |-> 1,
                   component_type |-> "BACKS",
                   notes |-> "20mm from wall edge"],
         braces |-> [width |-> internal_width, height |-> 100,
                     thickness |-> self.material_thickness, quantity |-> 2,
                     component_type |-> "BRACES"]]

\* ComponentCalculator.calculate_wardrobe
calculate_wardrobe(self, width, height, depth) ==
    LET internal_width == width - (self.material_thickness * 2)
        tb_depth == depth - 30
        shelf_depth == depth - 40
        shelf_count == Max(2, IntDiv(height - 200, 500))
    IN  [type |-> "wardrobe",
         overall |-> [width |-> width, height |-> height, depth |-> depth + 40,
                      internal_width |-> internal_width,
                      internal_depth |-> depth],
         gables |-> [width |-> depth, height |-> height,
                     thickness |-> self.material_thickness, quantity |-> 2,
                     component_type |-> "GABLE"],
         top_bottom |-> [width |-> internal_width, depth |-> tb_depth,
                         thickness |-> self.material_thickness, quantity |-> 2,
                         component_type |-> "T/B"],
         shelves |-> [width |-> internal_width, depth |-> shelf_depth,
                      thickness |-> self.material_thickness,
                      quantity |-> shelf_count, component_type |-> "S/H"],
         back |-> [width |-> internal_width, height |-> height,
                   thickness |-> self.back_thickness, quantity |-> 1,
                   component_type |-> "BACKS",
                   notes |-> "20mm from wall edge"],
         braces |-> [width |-> internal_width, height |-> 100,
                     thickness |-> self.material_thickness, quantity |-> 2,
                     component_type |-> "BRACES"]]

\* mutant of calculate_components: a type that is none of the four families gets a breakdown without panels
calculate_components_UnknownEmpty(self, cabinet_data) ==
    LET width == cabinet_data.width
        height == Get(cabinet_data, "height", 720)
        depth == Get(cabinet_data, "depth", 560)
        given_type == Get(cabinet_data, "type", "base")
        cabinet_type == IF given_type = "auto"
                        THEN detect_type(width, height, depth)
                        ELSE given_type
    IN  IF cabinet_type = "wall" THEN calculate_wall_cabinet(self, width, height)
        ELSE IF cabinet_type = "tall" THEN calculate_tall_cabinet(self, width, height)
        ELSE IF cabinet_type = "wardrobe"
             THEN calculate_wardrobe(self, width, height, depth)
        ELSE IF cabinet_type = "base" THEN calculate_base_cabinet(self, width)
        ELSE [type |-> cabinet_type]

\* ComponentCalculator.calculate_components
calculate_components(self, cabinet_data) ==
    LET width == cabinet_data.width
        height == Get(cabinet_data, "height", 720)
        depth == Get(cabinet_data, "depth", 560)
        given_type == Get(cabinet_data, "type", "base")
        cabinet_type == IF given_type = "auto"
                        THEN detect_type(width, height, depth)
                        ELSE given_type
    IN  IF cabinet_type = "wall" THEN calculate_wall_cabinet(self, width, height)
        ELSE IF cabinet_type = "tall" THEN calculate_tall_cabinet(self, width, height)
        ELSE IF cabinet_type = "wardrobe"
             THEN calculate_wardrobe(self, width, height, depth)
        ELSE calculate_base_cabinet(self, width)

(***************************************************************************)
(* cutting_list_builder.py                                                 *)
(***************************************************************************)

CabinetRequired == {"cabinet_id", "width", "height", "depth", "cabinet_type"}

\* the dataclass fields that have a default
CabinetDefaults == [shelves |-> 1, drawers |-> 0, doors |-> 1, notes |-> ""]

CabinetFields == CabinetRequired \cup DOMAIN CabinetDefaults

\* mutant of post_init: only the width is validated
post_init_WidthOnly(self) ==
    IF self.width <= 0 THEN "ValueError" ELSE "none"

\* Cabinet.__post_init__: raises ValueError on a non-positive dimension
post_init(self) ==
    IF self.width <= 0 \/ self.height <= 0 \/ self.depth <= 0
    THEN "ValueError"
    ELSE "none"

\* Cabinet(**cab_dict): the generated __init__ (TypeError on a missing
\* required argument or an unexpected keyword), then __post_init__
Cabinet(cab_dict) ==
    IF ~(CabinetRequired \subseteq DOMAIN cab_dict)
       \/ ~(DOMAIN cab_dict \subseteq CabinetFields)
    THEN [exc |-> "TypeError"]
    ELSE LET self == [k \in CabinetFields |->
                         IF k \in DOMAIN cab_dict THEN cab_dict[k]
                         ELSE CabinetDefaults[k]]
         IN  IF post_init(self) # "none"
             THEN [exc |-> post_init(self)]
             ELSE [exc |-> "none", value |-> self]

\* mutant of ConvertGables: the gable record carries the default thickness, not the breakdown's
ConvertGables_Default18(comp_data, cabinet) ==
    << [component_type |-> "GABLE",
        part_name |-> <<"Gable", cabinet.cabinet_id>>,
        cabinet_id |-> cabinet.cabinet_id,
        overall_unit_width |-> Get(comp_data, "width", 0),
        component_width |-> Get(comp_data, "width", 0),
        width |-> Get(comp_data, "width", 0),
        height |-> Get(comp_data, "height", 0),
        depth |-> None,
        quantity |-> Get(comp_data, "quantity", 2),
        material_thickness |-> 18,
        edge_banding_notes |-> "Front edge",
        area_m2 |-> Get(comp_data, "width", 0) * Get(comp_data, "height", 0)
                      * Get(comp_data, "quantity", 2)] >>

\* _convert_calc_result_to_components, branch comp_name == 'gables'
ConvertGables(comp_data, cabinet) ==
    << [component_type |-> "GABLE",
        part_name |-> <<"Gable", cabinet.cabinet_id>>,
        cabinet_id |-> cabinet.cabinet_id,
        overall_unit_width |-> Get(comp_data, "width", 0),
        component_width |-> Get(comp_data, "width", 0),
        width |-> Get(comp_data, "width", 0),
        height |-> Get(comp_data, "height", 0),
        depth |-> None,
        quantity |-> Get(comp_data, "quantity", 2),
        material_thickness |-> Get(comp_data, "thickness", 18),
        edge_banding_notes |-> "Front edge",
        area_m2 |-> Get(comp_data, "width", 0) * Get(comp_data, "height", 0)
                      * Get(comp_data, "quantity", 2)] >>

\* one of the two records of branch comp_name == 'top_bottom'
TopBottomPanel(label, comp_data, cabinet) ==
    [component_type |-> "T/B",
     part_name |-> <<label, cabinet.cabinet_id>>,
     cabinet_id |-> cabinet.cabinet_id,
     overall_unit_width |-> Get(comp_data, "width", 0),
     component_width |-> Get(comp_data, "width", 0),
     width |-> Get(comp_data, "width", 0),
     height |-> Get(comp_data, "depth", 0),
     depth |-> Some(Get(comp_data, "depth", 0)),
     quantity |-> 1,
     material_thickness |-> Get(comp_data, "thickness", 18),
     edge_banding_notes |-> "Front edge",
     area_m2 |-> Get(comp_data, "width", 0) * Get(comp_data, "depth", 0)]

\* _convert_calc_result_to_components, branch comp_name == 'top_bottom'
ConvertTopBottom(comp_data, cabinet) ==
    << TopBottomPanel("Top Panel", comp_data, cabinet),
       TopBottomPanel("Bottom Panel", comp_data, cabinet) >>

\* mutant of ConvertShelves: the shelves stay one record carrying the shelf quantity
ConvertShelves_Aggregated(comp_data, cabinet) ==
    [shelf_num \in 1..1 |->
        [component_type |-> "S/H",
         part_name |-> <<"Shelf", shelf_num, cabinet.cabinet_id>>,
         cabinet_id |-> cabinet.cabinet_id,
         overall_unit_width |-> Get(comp_data, "width", 0),
         component_width |-> Get(comp_data, "width", 0),
         width |-> Get(comp_data, "width", 0),
         height |-> Get(comp_data, "depth", 0),
         depth |-> Some(Get(comp_data, "depth", 0)),
         quantity |-> Get(comp_data, "quantity", 1),
         material_thickness |-> Get(comp_data, "thickness", 18),
         edge_banding_notes |-> "Front edge",
         area_m2 |-> Get(comp_data, "width", 0) * Get(comp_data, "depth", 0)
                       * Get(comp_data, "quantity", 1)]]

\* mutant of ConvertShelves: one shelf record per shelf the cabinet record asks for
ConvertShelves_CabinetCount(comp_data, cabinet) ==
    [shelf_num \in 1..cabinet.shelves |->
        [component_type |-> "S/H",
         part_name |-> <<"Shelf", shelf_num, cabinet.cabinet_id>>,
         cabinet_id |-> cabinet.cabinet_id,
         overall_unit_width |-> Get(comp_data, "width", 0),
         component_width |-> Get(comp_data, "width", 0),
         width |-> Get(comp_data, "width", 0),
         height |-> Get(comp_data, "depth", 0),
         depth |-> Some(Get(comp_data, "depth", 0)),
         quantity |-> 1,
         material_thickness |-> Get(comp_data, "thickness", 18),
         edge_banding_notes |-> "Front edge",
         area_m2 |-> Get(comp_data, "width", 0) * Get(comp_data, "depth", 0)]]

\* _convert_calc_result_to_components, branch comp_name == 'shelves':
\* for i in range(quantity), shelf_num = i + 1
ConvertShelves(comp_data, cabinet) ==
    [shelf_num \in 1..Get(comp_data, "quantity", 1) |->
        [component_type |-> "S/H",
         part_name |-> <<"Shelf", shelf_num, cabinet.cabinet_id>>,
         cabinet_id |-> cabinet.cabinet_id,
         overall_unit_width |-> Get(comp_data, "width", 0),
         component_width |-> Get(comp_data, "width", 0),
         width |-> Get(comp_data, "width", 0),
         height |-> Get(comp_data, "depth", 0),
         depth |-> Some(Get(comp_data, "depth", 0)),
         quantity |-> 1,
         material_thickness |-> Get(comp_data, "thickness", 18),
         edge_banding_notes |-> "Front edge",
         area_m2 |-> Get(comp_data, "width", 0) * Get(comp_data, "depth", 0)]]

\* mutant of ConvertBack: the label of the back panel leaves out the cabinet id
ConvertBack_NoId(comp_data, cabinet) ==
    << [component_type |-> "BACKS",
        part_name |-> <<"Back Panel">>,
        cabinet_id |-> cabinet.cabinet_id,
        overall_unit_width |-> Get(comp_data, "width", 0),
        component_width |-> Get(comp_data, "width", 0),
        width |-> Get(comp_data, "width", 0),
        height |-> Get(comp_data, "height", 0),
        depth |-> None,
        quantity |-> Get(comp_data, "quantity", 1),
        material_thickness |-> Get(comp_data, "thickness", 18),
        edge_banding_notes |-> "None",
        area_m2 |-> Get(comp_data, "width", 0) * Get(comp_data, "height", 0)
                      * Get(comp_data, "quantity", 1)] >>

\* _convert_calc_result_to_components, branch comp_name == 'back'
ConvertBack(comp_data, cabinet) ==
    << [component_type |-> "BACKS",
        part_name |-> <<"Back Panel", cabinet.cabinet_id>>,
        cabinet_id |-> cabinet.cabinet_id,
        overall_unit_width |-> Get(comp_data, "width", 0),
        component_width |-> Get(comp_data, "width", 0),
        width |-> Get(comp_data, "width", 0),
        height |-> Get(comp_data, "height", 0),
        depth |-> None,
        quantity |-> Get(comp_data, "quantity", 1),
        material_thickness |-> Get(comp_data, "thickness", 18),
        edge_banding_notes |-> "None",
        area_m2 |-> Get(comp_data, "width", 0) * Get(comp_data, "height", 0)
                      * Get(comp_data, "quantity", 1)] >>

\* _convert_calc_result_to_components, branch comp_name == 'braces'
ConvertBraces(comp_data, cabinet) ==
    << [component_type |-> "BRACES",
        part_name |-> <<"Rail", cabinet.cabinet_id>>,
        cabinet_id |-> cabinet.cabinet_id,
        overall_unit_width |-> Get(comp_data, "width", 0),
        component_width |-> Get(comp_data, "width", 0),
        width |-> Get(comp_data, "width", 0),
        height |-> Get(comp_data, "height", 0),
        depth |-> None,
        quantity |-> Get(comp_data, "quantity", 1),
        material_thickness |-> Get(comp_data, "thickness", 18),
        edge_banding_notes |-> "None",
        area_m2 |-> Get(comp_data, "width", 0) * Get(comp_data, "height", 0)
                      * Get(comp_data, "quantity", 1),
        notes |-> Get(comp_data, "notes", "")] >>

\* the body of the loop of _convert_calc_result_to_components for one
\* comp_name: skipped when the key is not in calc_result
ConvertOne(comp_name, calc_result, cabinet) ==
    IF comp_name \notin DOMAIN calc_result THEN <<>>
    ELSE LET comp_data == calc_result[comp_name]
         IN  CASE comp_name = "gables" -> ConvertGables(comp_data, cabinet)
               [] comp_name = "top_bottom" -> ConvertTopBottom(comp_data, cabinet)
               [] comp_name = "shelves" -> ConvertShelves(comp_data, cabinet)
               [] comp_name = "back" -> ConvertBack(comp_data, cabinet)
               [] comp_name = "braces" -> ConvertBraces(comp_data, cabinet)

\* mutant of convert_calc_result_to_components: the back panel is emitted right after the gables
convert_calc_result_to_components_BackFirst(calc_result, cabinet) ==
    ConvertOne("gables", calc_result, cabinet)
    \o ConvertOne("back", calc_result, cabinet)
    \o ConvertOne("top_bottom", calc_result, cabinet)
    \o ConvertOne("shelves", calc_result, cabinet)
    \o ConvertOne("braces", calc_result, cabinet)

\* CuttingListBuilder._convert_calc_result_to_components:
\* for comp_name in ['gables', 'top_bottom', 'shelves', 'back', 'braces']
convert_calc_result_to_components(calc_result, cabinet) ==
    ConvertOne("gables", calc_result, cabinet)
    \o ConvertOne("top_bottom", calc_result, cabinet)
    \o ConvertOne("shelves", calc_result, cabinet)
    \o ConvertOne("back", calc_result, cabinet)
    \o ConvertOne("braces", calc_result, cabinet)

\* CuttingListBuilder._calculate_filler_panel
calculate_filler_panel(self_style, cabinet) ==
    << [component_type |-> "FILLER",
        part_name |-> <<"Filler Panel", cabinet.cabinet_id>>,
        cabinet_id |-> cabinet.cabinet_id,
        width |-> cabinet.depth,
        height |-> cabinet.height,
        depth |-> None,
        quantity |-> 1,
        thickness |-> self_style.material_thickness,
        edge_banding |-> "All visible edges",
        formula |-> <<cabinet.height, "x", cabinet.depth>>] >>

\* mutant of calculate_cabinet_components: a filler of width 200 takes the shortcut too
calculate_cabinet_components_UpTo200(self_style, cabinet) ==
    IF cabinet.cabinet_type = "filler" /\ cabinet.width <= 200
    THEN calculate_filler_panel(self_style, cabinet)
    ELSE LET cabinet_data == [width |-> cabinet.width,
                              height |-> cabinet.height,
                              depth |-> cabinet.depth,
                              type |-> cabinet.cabinet_type]
             calc_result == calculate_components(self_style, cabinet_data)
         IN  convert_calc_result_to_components(calc_result, cabinet)

\* CuttingListBuilder._calculate_cabinet_components
calculate_cabinet_components(self_style, cabinet) ==
    IF cabinet.cabinet_type = "filler" /\ cabinet.width < 200
    THEN calculate_filler_panel(self_style, cabinet)
    ELSE LET cabinet_data == [width |-> cabinet.width,
                              height |-> cabinet.height,
                              depth |-> cabinet.depth,
                              type |-> cabinet.cabinet_type]
             calc_result == calculate_components(self_style, cabinet_data)
         IN  convert_calc_result_to_components(calc_result, cabinet)

\* mutant of SumQuantity: line items are counted instead of pieces
SumQuantity_LineItems(components) == Len(components)

\* total_pieces = sum(comp['quantity'] for comp in components)
RECURSIVE SumQuantity(_)
SumQuantity(components) ==
    IF components = <<>> THEN 0
    ELSE Head(components).quantity + SumQuantity(Tail(components))

\* mutant of AreaTerm: the quantity is left out of the area
AreaTerm_NoQuantity(comp) ==
    LET w == comp.width
        h == comp.height
        d == comp.depth
    IN  IF Truthy(w) /\ Truthy(h) THEN w * h
        ELSE IF Truthy(w) /\ TruthyOpt(d) THEN w * d[1]
        ELSE 0

\* one pass of the total-area loop of _calculate_summary: what one
\* component adds to total_area (in mm2)
AreaTerm(comp) ==
    LET w == comp.width
        h == comp.height
        d == comp.depth
        qty == Get(comp, "quantity", 1)
    IN  IF Truthy(w) /\ Truthy(h) THEN w * h * qty
        ELSE IF Truthy(w) /\ TruthyOpt(d) THEN w * d[1] * qty
        ELSE 0

\* the total-area loop of _calculate_summary
RECURSIVE TotalArea(_)
TotalArea(components) ==
    IF components = <<>> THEN 0
    ELSE AreaTerm(Head(components)) + TotalArea(Tail(components))

\* mutant of TypeCounts: each record adds 1 instead of its quantity
RECURSIVE TypeCounts_PerRecord(_, _)
TypeCounts_PerRecord(components, type_counts) ==
    IF components = <<>> THEN type_counts
    ELSE LET comp_type == Head(components).component_type
             seeded == IF comp_type \notin DOMAIN type_counts
                       THEN type_counts @@ (comp_type :> 0)
                       ELSE type_counts
         IN  TypeCounts_PerRecord(Tail(components),
                                  [seeded EXCEPT ![comp_type] = @ + 1])

\* the type-breakdown loop of _calculate_summary, from type_counts on
RECURSIVE TypeCounts(_, _)
TypeCounts(components, type_counts) ==
    IF components = <<>> THEN type_counts
    ELSE LET comp == Head(components)
             comp_type == comp.component_type
             seeded == IF comp_type \notin DOMAIN type_counts
                       THEN type_counts @@ (comp_type :> 0)
                       ELSE type_counts
         IN  TypeCounts(Tail(components),
                        [seeded EXCEPT ![comp_type] = @ + comp.quantity])

\* the empty dict {}
EmptyDict == [k \in {} |-> 0]

\* mutant of calculate_summary: total_cabinets counts the cabinets that
\* produced components instead of the cabinets passed in
calculate_summary_CountsProduced(components, num_cabinets) ==
    [total_cabinets |->
        Cardinality({ components[i].cabinet_id : i \in 1..Len(components) }),
     total_components |-> Len(components),
     total_pieces |-> SumQuantity(components),
     total_area_m2 |-> Round2(TotalArea(components)),
     component_breakdown |-> TypeCounts(components, EmptyDict)]

\* CuttingListBuilder._calculate_summary
calculate_summary(components, num_cabinets) ==
    [total_cabinets |-> num_cabinets,
     total_components |-> Len(components),
     total_pieces |-> SumQuantity(components),
     total_area_m2 |-> Round2(TotalArea(components)),
     component_breakdown |-> TypeCounts(components, EmptyDict)]

\* CuttingListBuilder._create_dataframe: the rows, in column order
create_dataframe(components) ==
    [i \in 1..Len(components) |->
        LET comp == components[i]
        IN  [Cabinet_ID |-> Get(comp, "cabinet_id", ""),
             Component_Type |-> comp.component_type,
             Part_Name |-> comp.part_name,
             Width |-> comp.width,
             Height |-> comp.height,
             Depth |-> comp.depth,
             Quantity |-> comp.quantity,
             Thickness |-> Get(comp, "material_thickness", 18),
             Edge_Banding |-> Get(comp, "edge_banding_notes", "None"),
             Formula |-> Get(comp, "formula", "")]]

\* mutant of empty_result: the summary is left as an empty dict
empty_result_NoSummary(self_style) ==
    [components |-> <<>>,
     summary |-> EmptyDict,
     dataframe |-> <<>>,
     construction_style |-> self_style]

\* mutant of empty_result: the empty result reports the default style, not the builder's
empty_result_DefaultStyle(self_style) ==
    [components |-> <<>>,
     summary |-> [total_cabinets |-> 0,
                  total_components |-> 0,
                  total_pieces |-> 0,
                  total_area_m2 |-> 0,
                  component_breakdown |-> EmptyDict],
     dataframe |-> <<>>,
     construction_style |-> DEFAULT_STYLE]

\* CuttingListBuilder._empty_result
empty_result(self_style) ==
    [components |-> <<>>,
     summary |-> [total_cabinets |-> 0,
                  total_components |-> 0,
                  total_pieces |-> 0,
                  total_area_m2 |-> 0,
                  component_breakdown |-> EmptyDict],
     dataframe |-> <<>>,
     construction_style |-> self_style]

\* the try block of the loop of build_cutting_list for one cab_dict:
\* Cabinet(**cab_dict), then _calculate_cabinet_components
TryCabinet(self_style, cab_dict) ==
    LET cabinet == Cabinet(cab_dict)
    IN  IF cabinet.exc # "none" THEN [exc |-> cabinet.exc]
        ELSE [exc |-> "none",
              components |-> calculate_cabinet_components(self_style, cabinet.value)]

\* mutant of ExceptException: the handler is `except ValueError`
ExceptException_ValueErrorOnly(exc) == exc = "ValueError"

\* `except Exception`: ValueError and TypeError are subclasses of Exception
ExceptException(exc) == exc \in {"ValueError", "TypeError"}

\* mutant of ProcessCabinets: a record whose cabinet_id already has
\* components in all_components is merged into it, i.e. contributes nothing
RECURSIVE ProcessCabinets_MergeDuplicates(_, _, _)
ProcessCabinets_MergeDuplicates(self_style, cabs, all_components) ==
    IF cabs = <<>> THEN [exc |-> "none", all_components |-> all_components]
    ELSE LET try == TryCabinet(self_style, Head(cabs))
             seen == { all_components[i].cabinet_id : i \in 1..Len(all_components) }
         IN  IF try.exc = "none"
             THEN ProcessCabinets_MergeDuplicates(self_style, Tail(cabs),
                      IF Head(cabs).cabinet_id \in seen THEN all_components
                      ELSE all_components \o try.components)
             ELSE IF ExceptException(try.exc)
             THEN ProcessCabinets_MergeDuplicates(self_style, Tail(cabs), all_components)
             ELSE [exc |-> try.exc]

\* the loop `for cab_dict in cabinets` of build_cutting_list, from
\* all_components on; an exception the handler does not catch leaves the loop
RECURSIVE ProcessCabinets(_, _, _)
ProcessCabinets(self_style, cabs, all_components) ==
    IF cabs = <<>> THEN [exc |-> "none", all_components |-> all_components]
    ELSE LET try == TryCabinet(self_style, Head(cabs))
         IN  IF try.exc = "none"
             THEN ProcessCabinets(self_style, Tail(cabs),
                                  all_components \o try.components)
             ELSE IF ExceptException(try.exc)
             THEN ProcessCabinets(self_style, Tail(cabs), all_components)
             ELSE [exc |-> try.exc]

\* mutant of build_cutting_list: the `if not all_components` return is missing
build_cutting_list_NoEmptyCheck(self_style, cabs) ==
    IF cabs = <<>> THEN [exc |-> "none", value |-> empty_result(self_style)]
    ELSE LET loop == ProcessCabinets(self_style, cabs, <<>>)
         IN  IF loop.exc # "none" THEN [exc |-> loop.exc]
             ELSE [exc |-> "none",
                   value |->
                     [components |-> loop.all_components,
                      summary |-> calculate_summary(loop.all_components, Len(cabs)),
                      dataframe |-> create_dataframe(loop.all_components),
                      construction_style |-> self_style]]

\* mutant of build_cutting_list: all_components is kept between calls (it
\* starts from the components of the call before) instead of starting empty
build_cutting_list_KeepsComponents(self_style, cabs) ==
    IF cabs = <<>> THEN [exc |-> "none", value |-> empty_result(self_style)]
    ELSE LET loop == ProcessCabinets(self_style, cabs,
                         IF result.exc = "none" THEN result.value.components
                         ELSE <<>>)
         IN  IF loop.exc # "none" THEN [exc |-> loop.exc]
             ELSE IF loop.all_components = <<>>
             THEN [exc |-> "none", value |-> empty_result(self_style)]
             ELSE [exc |-> "none",
                   value |->
                     [components |-> loop.all_components,
                      summary |-> calculate_summary(loop.all_components, Len(cabs)),
                      dataframe |-> create_dataframe(loop.all_components),
                      construction_style |-> self_style]]

\* CuttingListBuilder.build_cutting_list
build_cutting_list(self_style, cabs) ==
    IF cabs = <<>> THEN [exc |-> "none", value |-> empty_result(self_style)]
    ELSE LET loop == ProcessCabinets(self_style, cabs, <<>>)
         IN  IF loop.exc # "none" THEN [exc |-> loop.exc]
             ELSE IF loop.all_components = <<>>
             THEN [exc |-> "none", value |-> empty_result(self_style)]
             ELSE [exc |-> "none",
                   value |->
                     [components |-> loop.all_components,
                      summary |-> calculate_summary(loop.all_components, Len(cabs)),
                      dataframe |-> create_dataframe(loop.all_components),
                      construction_style |-> self_style]]

\* CuttingListBuilder.__init__: self.style = construction_style or DEFAULT_STYLE
CuttingListBuilder(construction_style) ==
    IF construction_style = None THEN DEFAULT_STYLE ELSE construction_style[1]

(***************************************************************************)
(* Inputs                                                                  *)
(***************************************************************************)

\* longest batch of the batch inputs
MaxBatch == 3

\* a style a caller supplies: ConstructionStyle(**style_data)
CustomStyle ==
    [ConstructionStyle EXCEPT !.material_thickness = 16,
                              !.back_thickness = 3,
                              !.back_construction_mode = "inset"]

StyleArgs == {None, Some(CustomStyle)}

\* a cabinet dict with the required keys only
Cab(id, w, h, d, t) ==
    [cabinet_id |-> id, width |-> w, height |-> h, depth |-> d, cabinet_type |-> t]

Families == {"base", "wall", "tall", "wardrobe"}

InputTypes == Families \cup {"auto", "filler", "corner"}

InputWidths == {0, 20, 32, 36, 37, 199, 200, 900}

InputHeights == {0, 150, 700, 701, 900, 901, 1500, 1501, 2200}

InputDepths == {0, 30, 40, 41, 400, 401, 559, 560}

\* batches of one cabinet, over every combination of the dimensions
SingleBatches ==
    { <<Cab("K1", w, h, d, t)>> :
        w \in InputWidths, h \in InputHeights, d \in InputDepths, t \in InputTypes }

\* the records the longer batches are made of: cabinets of several families,
\* a narrow filler, one record for each non-positive dimension, and a record
\* no wider than the two gables that repeats a cabinet_id
BatchCabinets ==
    { Cab("A", 900, 720, 560, "base"),
      Cab("B", 600, 900, 300, "wall"),
      Cab("D", 1000, 2200, 560, "wardrobe"),
      Cab("F", 100, 720, 560, "filler"),
      Cab("X", 0, 720, 560, "base"),
      Cab("Y", 600, 0, 300, "wall"),
      Cab("Z", 1000, 2200, -10, "wardrobe"),
      Cab("A", 36, 720, 560, "base") }

RECURSIVE SeqsUpTo(_, _)
SeqsUpTo(S, n) ==
    IF n = 0 THEN {<<>>}
    ELSE LET shorter == SeqsUpTo(S, n - 1)
         IN  shorter \cup { Append(q, x) : q \in shorter, x \in S }

BatchInputs == SingleBatches \cup SeqsUpTo(BatchCabinets, MaxBatch)

(***************************************************************************)
(* The state machine: a builder is constructed, then build_cutting_list    *)
(* is called on it with a batch.                                           *)
(***************************************************************************)

NotCalled == [exc |-> "not_called"]

Init ==
    /\ \E construction_style \in StyleArgs :
          style = CuttingListBuilder(construction_style)
    /\ cabinets = <<>>
    /\ result = NotCalled
    /\ pc = "ready"
    /\ tie_up \in BOOLEAN
    /\ calculator_input = NotCalled
    /\ breakdown = NotCalled
    /\ history = <<>>
    /\ builder = 1

\* builder.build_cutting_list(batch): the call returns or raises; the list
\* passed and the builder's style are not assigned to
BuildCuttingList ==
    /\ pc = "ready"
    /\ \E batch \in BatchInputs :
          /\ cabinets' = batch
          /\ result' = build_cutting_list(style, batch)
          /\ pc' = IF build_cutting_list(style, batch).exc = "none"
                   THEN "returned" ELSE "raised"
    /\ UNCHANGED <<style, tie_up, calculator_input, breakdown, history, builder>>

Next == BuildCuttingList

Spec == Init /\ [][Next]_vars

\* the dicts passed to calculate_components: width, height, depth, type
CalcInputs ==
    { [width |-> w, height |-> h, depth |-> d, type |-> t] :
        w \in InputWidths, h \in InputHeights, d \in InputDepths, t \in InputTypes }

\* builder.calculator.calculate_components(data), called directly: no
\* Cabinet is constructed, so no dimension is validated
CalculateComponents ==
    /\ pc = "ready"
    /\ \E data \in CalcInputs :
          /\ calculator_input' = data
          /\ breakdown' = calculate_components(style, data)
    /\ pc' = "calculated"
    /\ UNCHANGED <<style, cabinets, result, tie_up, history, builder>>

\* either operation, once
NextOps == BuildCuttingList \/ CalculateComponents

SpecOps == Init /\ [][NextOps]_vars

(***************************************************************************)
(* Several calls in a row, on one builder or on builders that share the    *)
(* style: every call is recorded in history.                               *)
(***************************************************************************)

\* the most calls made in a row
MaxCalls == 3

\* the most builders constructed on the one style
MaxBuilders == 2

\* the batches of the calls in a row: empty, one cabinet, a cabinet and a
\* narrow filler, a rejected record only
CallBatches ==
    { <<>>,
      <<Cab("A", 900, 720, 560, "base")>>,
      <<Cab("B", 600, 900, 300, "wall"), Cab("F", 100, 720, 560, "filler")>>,
      <<Cab("X", 0, 720, 560, "base")>> }

\* the dicts of the calculator calls in a row
CallCalcInputs ==
    { [width |-> 900, height |-> 720, depth |-> 560, type |-> "base"],
      [width |-> 600, height |-> 2200, depth |-> 560, type |-> "auto"],
      [width |-> 1000, height |-> 2200, depth |-> 560, type |-> "wardrobe"] }

\* CuttingListBuilder(style): another builder on the same ConstructionStyle;
\* __init__ assigns self.style and self.calculator and nothing else
NewBuilder ==
    /\ builder < MaxBuilders
    /\ builder' = builder + 1
    /\ style' = CuttingListBuilder(Some(style))
    /\ UNCHANGED <<cabinets, result, pc, tie_up, calculator_input, breakdown, history>>

\* builder.build_cutting_list(batch), any number of times
CallBuildCuttingList ==
    /\ Len(history) < MaxCalls
    /\ \E batch \in CallBatches :
          LET output == build_cutting_list(style, batch)
          IN  /\ cabinets' = batch
              /\ result' = output
              /\ pc' = IF output.exc = "none" THEN "returned" ELSE "raised"
              /\ history' = Append(history, [op |-> "build_cutting_list",
                                             builder |-> builder,
                                             input |-> batch,
                                             output |-> output])
    /\ UNCHANGED <<style, tie_up, calculator_input, breakdown, builder>>

\* builder.calculator.calculate_components(data), any number of times
CallCalculateComponents ==
    /\ Len(history) < MaxCalls
    /\ \E data \in CallCalcInputs :
          LET output == calculate_components(style, data)
          IN  /\ calculator_input' = data
              /\ breakdown' = output
              /\ history' = Append(history, [op |-> "calculate_components",
                                             builder |-> builder,
                                             input |-> data,
                                             output |-> output])
    /\ pc' = "calculated"
    /\ UNCHANGED <<style, cabinets, result, tie_up, builder>>

NextCalls == NewBuilder \/ CallBuildCuttingList \/ CallCalculateComponents

SpecCalls == Init /\ [][NextCalls]_vars

(***************************************************************************)
(* Builders on styles that differ in the fields no panel formula reads.    *)
(***************************************************************************)

\* the styles a caller can supply: the two thickness settings, each with
\* every combination of back_construction_mode, toe_kick_height,
\* wardrobe_toe_kick and door_gap
StyleVariants ==
    { [s EXCEPT !.back_construction_mode = mode,
                !.toe_kick_height = toe_kick,
                !.wardrobe_toe_kick = wardrobe_kick,
                !.door_gap = gap] :
        s \in {DEFAULT_STYLE, CustomStyle},
        mode \in {"overlay", "inset"},
        toe_kick \in {150, 100},
        wardrobe_kick \in {100, 0},
        gap \in {2, 3} }

\* the batches built on those styles: one cabinet of each family, an auto
\* and a corner cabinet, a narrow filler, the empty batch and a mixed batch
StyledBatches ==
    { <<>>,
      <<Cab("A", 900, 720, 560, "base")>>,
      <<Cab("B", 600, 900, 300, "wall")>>,
      <<Cab("C", 600, 2200, 560, "tall")>>,
      <<Cab("D", 1000, 2200, 560, "wardrobe")>>,
      <<Cab("E", 600, 720, 300, "auto")>>,
      <<Cab("G", 900, 900, 900, "corner")>>,
      <<Cab("F", 100, 720, 560, "filler")>>,
      <<Cab("X", 0, 720, 560, "base")>>,
      <<Cab("B", 600, 700, 300, "wall"), Cab("D", 1000, 2200, 560, "wardrobe"),
        Cab("A", 900, 720, 560, "base")>> }

InitStyles ==
    /\ \E construction_style \in StyleVariants :
          style = CuttingListBuilder(Some(construction_style))
    /\ cabinets = <<>>
    /\ result = NotCalled
    /\ pc = "ready"
    /\ tie_up \in BOOLEAN
    /\ calculator_input = NotCalled
    /\ breakdown = NotCalled
    /\ history = <<>>
    /\ builder = 1

\* builder.build_cutting_list(batch) on a builder of any of the styles
BuildStyled ==
    /\ pc = "ready"
    /\ \E batch \in StyledBatches :
          /\ cabinets' = batch
          /\ result' = build_cutting_list(style, batch)
          /\ pc' = IF build_cutting_list(style, batch).exc = "none"
                   THEN "returned" ELSE "raised"
    /\ UNCHANGED <<style, tie_up, calculator_input, breakdown, history, builder>>

NextStyles == BuildStyled

SpecStyles == InitStyles /\ [][NextStyles]_vars

(***************************************************************************)
(* Batches of caller-supplied dicts of any shape: optional keys present or *)
(* absent, required keys missing, keys that are not Cabinet fields.        *)
(***************************************************************************)

\* the dict with d[key] = val set
With(d, key, val) ==
    [k \in DOMAIN d \cup {key} |-> IF k = key THEN val ELSE d[k]]

\* the dict without the keys
Without(d, keys) == [k \in DOMAIN d \ keys |-> d[k]]

\* the 'metadata' value SectionAnalyzer.add_metadata puts on each cabinet dict
Metadata ==
    [extraction_method |-> "unknown", extraction_confidence |-> 0,
     drawing_notes |-> ""]

NotesValues == {"", "left of window"}

\* the dict with the key set to v for Some(v), left out for None
WithOptional(d, key, opt) == IF opt = None THEN d ELSE With(d, key, opt[1])

\* the dicts with the required keys and any choice of the optional ones
FeatureCabinets ==
    { WithOptional(WithOptional(WithOptional(WithOptional(c,
          "shelves", s), "drawers", dr), "doors", doo), "notes", n) :
        c \in { Cab("A", 900, 720, 560, "base"),
                Cab("C", 600, 2200, 560, "tall"),
                Cab("F", 100, 720, 560, "filler") },
        s \in {None, Some(0), Some(3)},
        dr \in {None, Some(2)},
        doo \in {None, Some(0), Some(2)},
        n \in {None} \cup { Some(v) : v \in NotesValues } }

\* the dicts Cabinet(**cab_dict) cannot take: one for each required key left
\* out, one with the 'metadata' key, one with a key of another name
MalformedCabinets ==
    { Without(Cab("M", 600, 720, 560, "base"), {k}) : k \in CabinetRequired }
    \cup { With(Cab("N", 600, 720, 560, "base"), "metadata", Metadata),
           With(Cab("P", 600, 900, 300, "wall"), "colour", "white") }

\* the records the longer batches of dicts are made of
MixedCabinets ==
    { Cab("A", 900, 720, 560, "base"),
      With(With(Cab("B", 600, 900, 300, "wall"), "shelves", 3), "notes",
           "left of window"),
      With(Cab("F", 100, 720, 560, "filler"), "drawers", 2),
      Cab("X", 0, 720, 560, "base"),
      Without(Cab("M", 600, 720, 560, "base"), {"depth"}),
      Without(Cab("M", 600, 720, 560, "base"), {"cabinet_id"}),
      With(Cab("N", 600, 720, 560, "base"), "metadata", Metadata) }

RecordBatches ==
    { <<c>> : c \in FeatureCabinets \cup MalformedCabinets }
    \cup SeqsUpTo(MixedCabinets, MaxBatch)

\* builder.build_cutting_list(batch) on a batch of dicts of any shape
BuildRecords ==
    /\ pc = "ready"
    /\ \E batch \in RecordBatches :
          /\ cabinets' = batch
          /\ result' = build_cutting_list(style, batch)
          /\ pc' = IF build_cutting_list(style, batch).exc = "none"
                   THEN "returned" ELSE "raised"
    /\ UNCHANGED <<style, tie_up, calculator_input, breakdown, history, builder>>

NextRecords == BuildRecords

SpecRecords == Init /\ [][NextRecords]_vars

(***************************************************************************)
(* Properties                                                              *)
(***************************************************************************)

Returned == pc = "returned"

\* the components of the returned result, as a set of positions
Positions == 1..Len(result.value.components)

ComponentAt(i) == result.value.components[i]

\* a record whose three dimensions are all positive
PositiveDims(cab) == cab.width > 0 /\ cab.height > 0 /\ cab.depth > 0

\* a record of one of the four families whose internal width is positive
ValidFamilyCabinet(cab) ==
    /\ cab.cabinet_type \in Families
    /\ cab.width > 2 * style.material_thickness
    /\ cab.height > 0
    /\ cab.depth > 0

\* a component all of whose dimensions are positive and whose quantity is >= 1
PositiveComponent(comp) ==
    /\ comp.width > 0
    /\ comp.height > 0
    /\ (comp.depth # None => comp.depth[1] > 0)
    /\ comp.quantity >= 1

\* C1: positivity invariant -- when every cabinet of the batch is of one of
\* the four families and has width > 2*material_thickness, height > 0 and
\* depth > 0, every emitted component has width > 0, height > 0, depth > 0
\* where it carries a depth, and quantity >= 1.
C1_Positivity ==
    (Returned /\ \A i \in 1..Len(cabinets) : ValidFamilyCabinet(cabinets[i]))
        => \A i \in Positions : PositiveComponent(ComponentAt(i))

\* a record of one of the four families no wider than the two gables
NarrowFamilyCabinet(cab) ==
    /\ cab.cabinet_type \in Families
    /\ cab.width <= 2 * style.material_thickness

\* C2: a cabinet of any family whose width is <= 2*material_thickness is
\* rejected -- a batch made only of such cabinets yields no component, and
\* so no component with zero or negative width.
C2_NarrowRejected ==
    (pc # "ready" /\ \A i \in 1..Len(cabinets) : NarrowFamilyCabinet(cabinets[i]))
        => /\ Returned
           /\ result.value.components = <<>>

\* the records of a batch whose three dimensions are all positive, in order
KeepPositive(batch) == SelectSeq(batch, PositiveDims)

\* C3: partial-failure tolerance -- build_cutting_list never raises, and the
\* components it returns are those of the same batch with every record that
\* has a width, height or depth <= 0 removed: such a record contributes
\* nothing and the others' components are all present, unchanged, in order.
C3_PartialFailure ==
    /\ pc # "raised"
    /\ Returned =>
          result.value.components
              = build_cutting_list(style, KeepPositive(cabinets)).value.components

\* C3 witness: a returned batch of three with a rejected record and
\* components of the accepted ones.
C3_Witness ==
    /\ Returned
    /\ Len(cabinets) = 3
    /\ \E i \in 1..Len(cabinets) : cabinets[i].width = 0
    /\ Cardinality({i \in 1..Len(cabinets) : PositiveDims(cabinets[i])}) = 2
    /\ result.value.components # <<>>

\* the sum of f over the positions in P
RECURSIVE SumOver(_, _)
SumOver(P, f) ==
    IF P = {} THEN 0
    ELSE LET i == CHOOSE j \in P : TRUE
         IN  f[i] + SumOver(P \ {i}, f)

QuantityAt == [i \in Positions |-> ComponentAt(i).quantity]

\* C4: piece-count consistency -- summary.total_pieces is the sum of the
\* quantity fields of all components.
C4_PieceCount ==
    Returned => result.value.summary.total_pieces = SumOver(Positions, QuantityAt)

\* C4 witness: a result with a quantity-2 record, so that pieces and line
\* items differ.
C4_Witness ==
    /\ Returned
    /\ Len(cabinets) >= 2
    /\ \E i \in Positions : ComponentAt(i).quantity = 2
    /\ result.value.summary.total_pieces > Len(result.value.components)

TypesPresent == { ComponentAt(i).component_type : i \in Positions }

PositionsOfType(T) == { i \in Positions : ComponentAt(i).component_type = T }

\* C5: breakdown consistency -- component_breakdown has a key for exactly the
\* component types that occur, and each value is the summed quantity of the
\* components of that type.
C5_Breakdown ==
    Returned =>
      /\ DOMAIN result.value.summary.component_breakdown = TypesPresent
      /\ \A T \in TypesPresent :
            result.value.summary.component_breakdown[T]
                = SumOver(PositionsOfType(T), QuantityAt)

\* C5 witness: gables of two cabinets (2 + 2 pieces in two records) next to
\* a filler.
C5_Witness ==
    /\ Returned
    /\ "FILLER" \in TypesPresent
    /\ Cardinality(PositionsOfType("GABLE")) = 2
    /\ result.value.summary.component_breakdown["GABLE"] = 4

\* the second dimension of a component: its depth for a horizontal panel,
\* its height otherwise
HeightOrDepth(comp) == IF comp.depth # None THEN comp.depth[1] ELSE comp.height

\* C6: area consistency -- every component, fillers included, has an area_m2
\* field equal to round(width * height_or_depth * quantity / 1_000_000, 2).
C6_AreaConsistency ==
    Returned =>
      \A i \in Positions :
        /\ "area_m2" \in DOMAIN ComponentAt(i)
        /\ ComponentAt(i).area_m2
             = Round2(ComponentAt(i).width * HeightOrDepth(ComponentAt(i))
                        * ComponentAt(i).quantity)

AreaAt ==
    [i \in Positions |->
        ComponentAt(i).width * HeightOrDepth(ComponentAt(i)) * ComponentAt(i).quantity]

\* C7: summary.total_area_m2 is the sum over all components of
\* width x height x quantity (width x depth x quantity for horizontal
\* panels), in mm2, divided by 1_000_000 and rounded to 2 decimals.
C7_TotalArea ==
    Returned => result.value.summary.total_area_m2 = Round2(SumOver(Positions, AreaAt))

\* C7 witness: a total made of vertical and horizontal panels, with a
\* quantity-2 record, that rounding changes.
C7_Witness ==
    /\ Returned
    /\ \E i \in Positions : ComponentAt(i).depth # None
    /\ \E i \in Positions : ComponentAt(i).depth = None /\ ComponentAt(i).quantity = 2
    /\ SumOver(Positions, AreaAt) > 0
    /\ result.value.summary.total_area_m2 # SumOver(Positions, AreaAt)

EmptySummary ==
    [total_cabinets |-> 0, total_components |-> 0, total_pieces |-> 0,
     total_area_m2 |-> 0, component_breakdown |-> EmptyDict]

\* C8: empty batch -- build_cutting_list([]) returns, with components = []
\* and the all-zero summary with an empty component_breakdown.
C8_EmptyBatch ==
    (pc # "ready" /\ cabinets = <<>>)
        => /\ Returned
           /\ result.value.components = <<>>
           /\ result.value.summary = EmptySummary

\* C8 witness: the call with the empty list has returned.
C8_Witness == Returned /\ cabinets = <<>>

\* C9: total failure -- when every record of a non-empty batch is rejected,
\* the result has the shape of the empty batch's: no components,
\* total_cabinets = total_components = total_pieces = 0 and an empty
\* component_breakdown.
C9_TotalFailure ==
    (Returned /\ cabinets # <<>> /\ KeepPositive(cabinets) = <<>>)
        => /\ result.value.components = <<>>
           /\ result.value.summary.total_cabinets = 0
           /\ result.value.summary.total_components = 0
           /\ result.value.summary.total_pieces = 0
           /\ result.value.summary.component_breakdown = EmptyDict

\* C9 witness: a returned batch of several records, all rejected.
C9_Witness ==
    /\ Returned
    /\ Len(cabinets) >= 2
    /\ KeepPositive(cabinets) = <<>>

\* C10: when at least one component is generated, total_cabinets is the
\* length of the input list (skipped records and filler-shortcut cabinets
\* counted) and total_components is the number of entries of components.
C10_Counts ==
    (Returned /\ result.value.components # <<>>)
        => /\ result.value.summary.total_cabinets = Len(cabinets)
           /\ result.value.summary.total_components = Len(result.value.components)

\* C10 witness: components generated from a batch holding a skipped record
\* and a filler-shortcut cabinet.
C10_Witness ==
    /\ Returned
    /\ result.value.components # <<>>
    /\ \E i \in 1..Len(cabinets) : ~PositiveDims(cabinets[i])
    /\ \E i \in Positions : ComponentAt(i).component_type = "FILLER"
    /\ \E i \in Positions : ComponentAt(i).component_type = "GABLE"

Calculated == pc = "calculated"

\* the internal width of the cabinet passed to calculate_components
CalcIW == calculator_input.width - 2 * style.material_thickness

\* a vertical panel of the breakdown: width x height, quantity
VerticalPanel(panel, w, h, q) ==
    panel.width = w /\ panel.height = h /\ panel.quantity = q

\* a horizontal panel of the breakdown: width x depth, quantity
HorizontalPanel(panel, w, d, q) ==
    panel.width = w /\ panel.depth = d /\ panel.quantity = q

\* C11: base family -- for a base cabinet of any width and any height and
\* depth the breakdown is gables 560 x 720 qty 2, top/bottom IW x 500 qty 2,
\* shelf IW x 500 qty 1, back IW x 720 qty 1 of back_thickness, brace IW x 100
\* qty 1, with IW = width - 2*material_thickness: height and depth play no
\* part; and a single base cabinet that is built yields total_pieces = 7.
C11_BaseFamily ==
    /\ (Calculated /\ calculator_input.type = "base") =>
          /\ VerticalPanel(breakdown.gables, 560, 720, 2)
          /\ HorizontalPanel(breakdown.top_bottom, CalcIW, 500, 2)
          /\ HorizontalPanel(breakdown.shelves, CalcIW, 500, 1)
          /\ VerticalPanel(breakdown.back, CalcIW, 720, 1)
          /\ breakdown.back.thickness = style.back_thickness
          /\ VerticalPanel(breakdown.braces, CalcIW, 100, 1)
    /\ (Returned /\ Len(cabinets) = 1 /\ cabinets[1].cabinet_type = "base"
          /\ PositiveDims(cabinets[1])) =>
          result.value.summary.total_pieces = 7

\* C11 witness: a base cabinet of width 900 whose height and depth are not
\* the standard 720 and 560, under a style that is not 18 mm.
C11_Witness ==
    /\ Calculated
    /\ calculator_input.type = "base"
    /\ calculator_input.width = 900
    /\ calculator_input.height = 2200
    /\ calculator_input.depth = 30
    /\ style.material_thickness = 16
    /\ breakdown.top_bottom.width = 868

\* C12: wall family -- gables 300 x H qty 2, top/bottom IW x 280 qty 2,
\* shelves IW x 280 with quantity 1 if H <= 700 and 2 if H > 700, back IW x H
\* qty 1, braces IW x 100 qty 2; the depth plays no part.
C12_WallFamily ==
    (Calculated /\ calculator_input.type = "wall") =>
        LET H == calculator_input.height
        IN  /\ VerticalPanel(breakdown.gables, 300, H, 2)
            /\ HorizontalPanel(breakdown.top_bottom, CalcIW, 280, 2)
            /\ HorizontalPanel(breakdown.shelves, CalcIW, 280,
                               IF H <= 700 THEN 1 ELSE 2)
            /\ VerticalPanel(breakdown.back, CalcIW, H, 1)
            /\ VerticalPanel(breakdown.braces, CalcIW, 100, 2)

\* C12 witness: the boundary height 700 itself, with one shelf.
C12_Witness ==
    /\ Calculated
    /\ calculator_input.type = "wall"
    /\ calculator_input.height = 700
    /\ breakdown.shelves.quantity = 1

\* floor((H - 200) / n), at least 2
ShelfCount(H, n) == IF (H - 200) \div n >= 2 THEN (H - 200) \div n ELSE 2

\* C13: tall family -- gables 560 x H qty 2, top/bottom IW x 500 qty 2,
\* shelves IW x 500 with quantity max(2, floor((H - 200) / 400)), back IW x H
\* qty 1, braces IW x 100 qty 2; the shelf quantity is at least 2 for every
\* H, H < 200 included.
C13_TallFamily ==
    (Calculated /\ calculator_input.type = "tall") =>
        LET H == calculator_input.height
        IN  /\ VerticalPanel(breakdown.gables, 560, H, 2)
            /\ HorizontalPanel(breakdown.top_bottom, CalcIW, 500, 2)
            /\ HorizontalPanel(breakdown.shelves, CalcIW, 500, ShelfCount(H, 400))
            /\ breakdown.shelves.quantity >= 2
            /\ VerticalPanel(breakdown.back, CalcIW, H, 1)
            /\ VerticalPanel(breakdown.braces, CalcIW, 100, 2)

\* C13 witness: a tall cabinet of height 2200, with floor(2000/400) = 5
\* shelves.
C13_Witness ==
    /\ Calculated
    /\ calculator_input.type = "tall"
    /\ calculator_input.height = 2200
    /\ breakdown.shelves.quantity = 5

\* C14: wardrobe family -- gables D x H qty 2, top/bottom IW x (D - 30)
\* qty 2, shelves IW x (D - 40) with quantity max(2, floor((H - 200) / 500)),
\* back IW x H qty 1, braces IW x 100 qty 2.
C14_WardrobeFamily ==
    (Calculated /\ calculator_input.type = "wardrobe") =>
        LET H == calculator_input.height
            D == calculator_input.depth
        IN  /\ VerticalPanel(breakdown.gables, D, H, 2)
            /\ HorizontalPanel(breakdown.top_bottom, CalcIW, D - 30, 2)
            /\ HorizontalPanel(breakdown.shelves, CalcIW, D - 40, ShelfCount(H, 500))
            /\ VerticalPanel(breakdown.back, CalcIW, H, 1)
            /\ VerticalPanel(breakdown.braces, CalcIW, 100, 2)

\* C14 witness: a wardrobe of height 2200 and depth 560: 4 shelves, top and
\* bottom 530 deep, shelves 520 deep.
C14_Witness ==
    /\ Calculated
    /\ calculator_input.type = "wardrobe"
    /\ calculator_input.height = 2200
    /\ calculator_input.depth = 560
    /\ breakdown.shelves.quantity = 4
    /\ breakdown.top_bottom.depth = 530
    /\ breakdown.shelves.depth = 520

\* the family the priority order gives: tall, else wall, else base
FamilyByPriority(H, D) ==
    IF H > 1500 THEN "tall"
    ELSE IF H <= 900 /\ D <= 400 THEN "wall"
    ELSE "base"

\* C15: family detection for type 'auto' -- height > 1500 gives tall;
\* otherwise height <= 900 and depth <= 400 gives wall; otherwise base.  The
\* breakdown is the one of that family, and never the wardrobe's.
C15_AutoDetection ==
    (Calculated /\ calculator_input.type = "auto") =>
        LET family == FamilyByPriority(calculator_input.height, calculator_input.depth)
        IN  /\ breakdown.type = family
            /\ breakdown.type # "wardrobe"
            /\ breakdown.gables.width = (IF family = "wall" THEN 300 ELSE 560)
            /\ breakdown.braces.quantity = (IF family = "base" THEN 1 ELSE 2)

\* C15 witness: an 'auto' cabinet that meets the shadowed wardrobe rule
\* (depth >= 560 and height > 1500) and is calculated as tall.
C15_Witness ==
    /\ Calculated
    /\ calculator_input.type = "auto"
    /\ calculator_input.depth >= 560
    /\ calculator_input.height > 1500
    /\ breakdown.type = "tall"

\* the record takes the filler shortcut: type 'filler' and width < 200
NarrowFiller(cab) == cab.cabinet_type = "filler" /\ cab.width < 200

\* the component types of the returned components, in order
TypeSequence == [i \in Positions |-> ComponentAt(i).component_type]

\* C16: filler routing -- a 'filler' cabinet with width < 200 yields exactly
\* one component, of type FILLER, width = the cabinet's depth, height = the
\* cabinet's height, quantity 1; a 'filler' cabinet with width >= 200 takes
\* the family calculator and yields its gable, panels, back and rail, and no
\* FILLER.
C16_FillerRouting ==
    (Returned /\ Len(cabinets) = 1 /\ cabinets[1].cabinet_type = "filler"
       /\ PositiveDims(cabinets[1])) =>
        IF cabinets[1].width < 200
        THEN /\ Len(result.value.components) = 1
             /\ ComponentAt(1).component_type = "FILLER"
             /\ ComponentAt(1).width = cabinets[1].depth
             /\ ComponentAt(1).height = cabinets[1].height
             /\ ComponentAt(1).quantity = 1
        ELSE TypeSequence = <<"GABLE", "T/B", "T/B", "S/H", "BACKS", "BRACES">>

\* C16 witness: the boundary width 200, which does not take the shortcut.
C16_Witness ==
    /\ Returned
    /\ Len(cabinets) = 1
    /\ cabinets[1].cabinet_type = "filler"
    /\ cabinets[1].width = 200
    /\ "GABLE" \in TypesPresent

\* the breakdown of the single cabinet of the batch
BreakdownOf(cab) ==
    calculate_components(style, [width |-> cab.width, height |-> cab.height,
                                 depth |-> cab.depth, type |-> cab.cabinet_type])

PartNamesOfType(T) == { ComponentAt(i).part_name : i \in PositionsOfType(T) }

\* C17: flattening -- for a cabinet that goes through the family calculator
\* the breakdown becomes one GABLE record carrying the gable quantity, two
\* T/B records 'Top Panel' and 'Bottom Panel' of quantity 1, N S/H records
\* 'Shelf 1' .. 'Shelf N' of quantity 1 (N the breakdown's shelf quantity),
\* one BACKS and one BRACES record carrying their own quantity; the
\* quantities of the records add up to the quantities of the breakdown.
C17_Flattening ==
    (Returned /\ Len(cabinets) = 1 /\ PositiveDims(cabinets[1])
       /\ ~NarrowFiller(cabinets[1])) =>
        LET b == BreakdownOf(cabinets[1])
            id == cabinets[1].cabinet_id
            N == b.shelves.quantity
        IN  /\ Cardinality(PositionsOfType("GABLE")) = 1
            /\ \A i \in PositionsOfType("GABLE") :
                  ComponentAt(i).quantity = b.gables.quantity
            /\ Cardinality(PositionsOfType("T/B")) = 2
            /\ PartNamesOfType("T/B") = {<<"Top Panel", id>>, <<"Bottom Panel", id>>}
            /\ Cardinality(PositionsOfType("S/H")) = N
            /\ PartNamesOfType("S/H") = { <<"Shelf", k, id>> : k \in 1..N }
            /\ \A i \in PositionsOfType("T/B") \cup PositionsOfType("S/H") :
                  ComponentAt(i).quantity = 1
            /\ Cardinality(PositionsOfType("BACKS")) = 1
            /\ \A i \in PositionsOfType("BACKS") :
                  ComponentAt(i).quantity = b.back.quantity
            /\ Cardinality(PositionsOfType("BRACES")) = 1
            /\ \A i \in PositionsOfType("BRACES") :
                  ComponentAt(i).quantity = b.braces.quantity
            /\ TypesPresent = {"GABLE", "T/B", "S/H", "BACKS", "BRACES"}
            /\ SumOver(Positions, QuantityAt)
                 = b.gables.quantity + b.top_bottom.quantity + b.shelves.quantity
                   + b.back.quantity + b.braces.quantity

\* C17 witness: a tall cabinet with five shelves, flattened into ten records.
C17_Witness ==
    /\ Returned
    /\ Len(cabinets) = 1
    /\ cabinets[1].cabinet_type = "tall"
    /\ Cardinality(PositionsOfType("S/H")) = 5
    /\ Len(result.value.components) = 10

\* the record has a type the calculator does not know and does not take the
\* filler shortcut
UnrecognizedType(cab) ==
    /\ cab.cabinet_type \notin Families \cup {"auto"}
    /\ ~NarrowFiller(cab)

\* C18: an unrecognized cabinet_type is not an error -- the cabinet yields
\* exactly the components a 'base' cabinet of the same id and dimensions
\* yields: the six records and seven pieces of the base family.
C18_UnknownTypeIsBase ==
    (pc # "ready" /\ Len(cabinets) = 1 /\ PositiveDims(cabinets[1])
       /\ UnrecognizedType(cabinets[1])) =>
        /\ Returned
        /\ result.value.components
             = build_cutting_list(style,
                   <<[cabinets[1] EXCEPT !.cabinet_type = "base"]>>).value.components
        /\ TypeSequence = <<"GABLE", "T/B", "T/B", "S/H", "BACKS", "BRACES">>
        /\ \A i \in PositionsOfType("GABLE") :
              ComponentAt(i).width = 560 /\ ComponentAt(i).height = 720
        /\ result.value.summary.total_pieces = 7

\* C18 witness: a 'corner' cabinet that was built.
C18_Witness ==
    /\ Returned
    /\ Len(cabinets) = 1
    /\ cabinets[1].cabinet_type = "corner"
    /\ cabinets[1].height = 2200
    /\ Len(result.value.components) = 6

\* the fields of the output contract
ContractFields ==
    {"component_type", "part_name", "cabinet_id", "width", "height", "quantity",
     "material_thickness", "edge_banding_notes", "area_m2"}

\* C19: output contract -- every returned component, from the family
\* calculator or from the filler shortcut, carries component_type, part_name,
\* cabinet_id, width, height, quantity, material_thickness,
\* edge_banding_notes and area_m2.
C19_OutputContract ==
    Returned => \A i \in Positions : ContractFields \subseteq DOMAIN ComponentAt(i)

Calls == 1..Len(history)

SamePanelFields(s1, s2) ==
    /\ s1.material_thickness = s2.material_thickness
    /\ s1.back_thickness = s2.back_thickness
    /\ s1.cabinet_type = s2.cabinet_type

StructuralTypes == {"GABLE", "T/B", "S/H", "BRACES"}

\* C22: thickness threading -- every GABLE, T/B, S/H and BRACES component
\* has material_thickness equal to the style's material_thickness, every
\* BACKS component has material_thickness equal to the style's
\* back_thickness, and every panel cut to the internal width (top, bottom,
\* shelves, back, rail) is  width - 2 * the style's material_thickness  wide.
C22_ThicknessThreading ==
    Returned =>
        /\ \A i \in Positions :
              /\ ComponentAt(i).component_type \in StructuralTypes
                   => ComponentAt(i).material_thickness = style.material_thickness
              /\ ComponentAt(i).component_type = "BACKS"
                   => ComponentAt(i).material_thickness = style.back_thickness
        /\ (Len(cabinets) = 1 /\ PositiveDims(cabinets[1])) =>
              \A i \in Positions :
                  ComponentAt(i).component_type \in {"T/B", "S/H", "BACKS", "BRACES"}
                    => ComponentAt(i).width
                         = cabinets[1].width - 2 * style.material_thickness

\* C22 witness: a cabinet built on the 16 mm / 3 mm style.
C22_Witness ==
    /\ Returned
    /\ style.material_thickness = 16
    /\ Len(cabinets) = 1
    /\ cabinets[1].width = 900
    /\ \E i \in Positions :
          ComponentAt(i).component_type = "BACKS"
            /\ ComponentAt(i).material_thickness = 3
            /\ ComponentAt(i).width = 868

\* row i of the table of the result
RowAt(i) == result.value.dataframe[i]

\* C23: tabular projection -- the table has one row per component, in the
\* order of components, and each row's Cabinet ID, Component Type, Part
\* Name, Width, Height, Depth, Quantity, Thickness and Edge Banding equal
\* the values of that component; for a FILLER row Thickness is the style's
\* material_thickness and Edge Banding is the filler's edge-banding text.
C23_TabularProjection ==
    Returned =>
        /\ Len(result.value.dataframe) = Len(result.value.components)
        /\ \A i \in Positions :
              LET comp == ComponentAt(i)
                  row == RowAt(i)
              IN  /\ row.Cabinet_ID = comp.cabinet_id
                  /\ row.Component_Type = comp.component_type
                  /\ row.Part_Name = comp.part_name
                  /\ row.Width = comp.width
                  /\ row.Height = comp.height
                  /\ row.Depth = comp.depth
                  /\ row.Quantity = comp.quantity
                  /\ IF comp.component_type = "FILLER"
                     THEN /\ row.Thickness = style.material_thickness
                          /\ row.Edge_Banding = comp.edge_banding
                     ELSE /\ row.Thickness = comp.material_thickness
                          /\ row.Edge_Banding = comp.edge_banding_notes

\* C24: the notes annotation is passed through to the output -- the notes
\* value of an input cabinet can be recovered from the result, so the
\* result for the same cabinet with another notes value is a different one.
C24_NotesPassThrough ==
    (Returned /\ Len(cabinets) = 1 /\ "notes" \in DOMAIN cabinets[1]
       /\ result.value.components # <<>>) =>
        \A other \in NotesValues \ {cabinets[1].notes} :
            build_cutting_list(style, <<With(cabinets[1], "notes", other)>>).value
              # result.value

\* the input records that were processed without error
ProcessedRecords == { k \in 1..Len(cabinets) : PositiveDims(cabinets[k]) }

\* the label ends with the id: f'... ({cabinet.cabinet_id})'
NameContains(part_name, id) == part_name[Len(part_name)] = id

\* C25: traceability -- every component of the result has the cabinet_id of
\* an input record that was processed without error, and its part_name
\* contains that cabinet_id; no component carries the id of a record that
\* was only skipped or that was not in the input.
C25_Traceability ==
    Returned =>
        \A i \in Positions :
            /\ \E k \in ProcessedRecords :
                  ComponentAt(i).cabinet_id = cabinets[k].cabinet_id
            /\ NameContains(ComponentAt(i).part_name, ComponentAt(i).cabinet_id)

\* C25 witness: a batch with a skipped record between two processed ones.
C25_Witness ==
    /\ Returned
    /\ Len(cabinets) = 3
    /\ cabinets[1].cabinet_id = "B"
    /\ cabinets[2].cabinet_id = "X"
    /\ cabinets[3].cabinet_id = "F"
    /\ { ComponentAt(i).cabinet_id : i \in Positions } = {"B", "F"}

\* the call the step appended to history
NewCall == history'[Len(history')]

\* C26: build_cutting_list is side-effect-free on its arguments and on the
\* configuration -- no step changes a field of the builder's style, and
\* after every invocation, one in which every cabinet fails included, the
\* list passed is as it was passed, the call returned, and the returned
\* construction_style equals the style's fields.
C26_FrameEffect ==
    [][ /\ style' = style
        /\ (Len(history') > Len(history) /\ NewCall.op = "build_cutting_list") =>
              /\ cabinets' = NewCall.input
              /\ NewCall.output.exc = "none"
              /\ NewCall.output.value.construction_style = style' ]_vars

\* C26 witness: on the second builder of a caller-supplied style, a batch
\* whose only cabinet fails was built after a batch that produced components.
C26_Witness ==
    /\ Len(history) = 2
    /\ history[1].op = "build_cutting_list"
    /\ history[1].output.value.components # <<>>
    /\ history[2].op = "build_cutting_list"
    /\ history[2].builder = 2
    /\ history[2].input = <<Cab("X", 0, 720, 560, "base")>>
    /\ cabinets = history[2].input
    /\ style = CustomStyle
    /\ result.value.construction_style = CustomStyle

\* the components build_cutting_list returns for the batch
ComponentsOf(batch) == build_cutting_list(style, batch).value.components

\* C27: batch compositionality -- for every way of splitting the batch into
\* A ++ B, the components of the batch are the components of A followed by
\* the components of B; records with the same cabinet_id are neither
\* rejected nor merged.
C27_Compositional ==
    Returned =>
        \A k \in 0..Len(cabinets) :
            result.value.components
              = ComponentsOf(SubSeq(cabinets, 1, k))
                \o ComponentsOf(SubSeq(cabinets, k + 1, Len(cabinets)))

\* C27 witness: two records with the cabinet_id "A" and a narrow filler.
C27_Witness ==
    /\ Returned
    /\ Len(cabinets) = 3
    /\ cabinets[1].cabinet_id = "A" /\ cabinets[1].width = 900
    /\ cabinets[2].cabinet_id = "A" /\ cabinets[2].width = 36
    /\ cabinets[3].cabinet_id = "F"
    /\ Len(result.value.components) = 13

ShelfNames(id, N) == [n \in 1..N |-> <<"Shelf", n, id>>]

\* the labels of one processed cabinet, in the order of the claim
ExpectedNames(cab) ==
    IF NarrowFiller(cab) THEN << <<"Filler Panel", cab.cabinet_id>> >>
    ELSE << <<"Gable", cab.cabinet_id>>,
            <<"Top Panel", cab.cabinet_id>>,
            <<"Bottom Panel", cab.cabinet_id>> >>
         \o ShelfNames(cab.cabinet_id, BreakdownOf(cab).shelves.quantity)
         \o << <<"Back Panel", cab.cabinet_id>>, <<"Rail", cab.cabinet_id>> >>

\* the labels of the processed cabinets, cabinet after cabinet
RECURSIVE ExpectedOrder(_)
ExpectedOrder(cabs) ==
    IF cabs = <<>> THEN <<>>
    ELSE ExpectedNames(Head(cabs)) \o ExpectedOrder(Tail(cabs))

\* C28: output ordering -- the components are grouped by cabinet in the
\* order of the input list, and within a family-calculated cabinet the order
\* is gable, top panel, bottom panel, shelves 1..N in increasing number,
\* back panel, rail.
C28_Ordering ==
    Returned =>
        [i \in Positions |-> ComponentAt(i).part_name]
          = ExpectedOrder(KeepPositive(cabinets))

\* C28 witness: a wardrobe with four shelves before a base cabinet.
C28_Witness ==
    /\ Returned
    /\ Len(cabinets) = 2
    /\ cabinets[1].cabinet_id = "D"
    /\ cabinets[2].cabinet_id = "A" /\ cabinets[2].width = 900
    /\ ComponentAt(7).part_name = <<"Shelf", 4, "D">>
    /\ ComponentAt(8).part_name = <<"Back Panel", "D">>
    /\ ComponentAt(10).part_name = <<"Gable", "A">>

FeatureKeys == {"shelves", "drawers", "doors"}

\* the batch with the feature counts left out of every record
WithoutFeatures(batch) == [k \in 1..Len(batch) |-> Without(batch[k], FeatureKeys)]

\* C29: the feature counts of a cabinet do not influence its components --
\* the components of a batch are those of the same batch without the
\* shelves, drawers and doors keys, and no DOOR, DRAWER_FRONT or
\* DRAWER_DIVIDER component is ever emitted.
C29_FeatureCountsIgnored ==
    Returned =>
        /\ result.value.components = ComponentsOf(WithoutFeatures(cabinets))
        /\ TypesPresent \cap {"DOOR", "DRAWER_FRONT", "DRAWER_DIVIDER"} = {}

\* C29 witness: a tall cabinet asking for 3 shelves, 2 drawers and no door,
\* built with the five shelves of the tall formula.
C29_Witness ==
    /\ Returned
    /\ Len(cabinets) = 1
    /\ DOMAIN cabinets[1] = CabinetFields
    /\ cabinets[1].cabinet_type = "tall"
    /\ cabinets[1].shelves = 3
    /\ cabinets[1].drawers = 2
    /\ cabinets[1].doors = 0
    /\ Cardinality(PositionsOfType("S/H")) = 5

\* Cabinet(**cab_dict) can bind the dict: every required key, no other key
\* than a Cabinet field
WellFormed(cab_dict) ==
    /\ CabinetRequired \subseteq DOMAIN cab_dict
    /\ DOMAIN cab_dict \subseteq CabinetFields

\* C30: a record with a required key missing or with a key that is not a
\* Cabinet field (such as 'metadata') is skipped without aborting the
\* batch -- the call returns, the components are those of the batch without
\* these records, and every component belongs to a record that could be
\* constructed.
C30_MalformedSkipped ==
    pc # "ready" =>
        /\ Returned
        /\ result.value.components = ComponentsOf(SelectSeq(cabinets, WellFormed))
        /\ \A i \in Positions :
              \E k \in 1..Len(cabinets) :
                  /\ WellFormed(cabinets[k])
                  /\ cabinets[k].cabinet_id = ComponentAt(i).cabinet_id

\* C30 witness: a record with 'metadata', then a base cabinet, then a record
\* without depth; the six components of the base cabinet are returned.
C30_Witness ==
    /\ Returned
    /\ Len(cabinets) = 3
    /\ "metadata" \in DOMAIN cabinets[1]
    /\ cabinets[2] = Cab("A", 900, 720, 560, "base")
    /\ "depth" \notin DOMAIN cabinets[3]
    /\ Len(result.value.components) = 6
    /\ \A i \in Positions : ComponentAt(i).cabinet_id = "A"

====
